---------------------------- MODULE Spec2Model ----------------------------
(***************************************************************************)
(* A model of package xrand (src/rand.go): one process-wide generator      *)
(* behind a lockedSource, and the operations Intn, IntnBetween, Float64,   *)
(* Jitter and String layered on it.                                        *)
(*                                                                         *)
(* Every caller (goroutine) runs one call.  A draw is the body of          *)
(* lockedSource.Int63: Lock, the source's read-modify-write of its state,  *)
(* Unlock.  The 64 bit machine words (int, time.Duration) and the 53 bit   *)
(* fraction of a float64 draw are scaled down to IntBits, DurationBits and *)
(* FracBits bits; a 63 bit draw is kept as a sequence of 63 bits, least    *)
(* significant bit first.  Floating point products are modelled as exact   *)
(* rationals (float64 rounding is not modelled).                           *)
(***************************************************************************)
EXTENDS Integers, Sequences, FiniteSets, TLC

\* ------------------------------------------------------------------ bounds
\* Number of concurrent callers (goroutines).
NumCallers == 2
\* Bits of state of the modelled pseudo-random source (its period is 2^GenBits).
GenBits == 6
\* Width of the modelled machine int (64 in the build).
IntBits == 4
\* Width of the modelled time.Duration (int64 in the build).
DurationBits == 5
\* Bits of the fraction of a Float64 draw (53 in the build).
FracBits == 3
\* Largest length n passed to String.
MaxLen == 3
\* Number of draws the history variable handed records.
MaxLog == 6

\* ------------------------------------------------------- program constants
\* The width of one draw: "63 / alphabetIdxBits", Int63.
Int63Bits == 63

defaultJitterFactor == [num |-> 1, den |-> 5]

AlphanumAlphabet ==
    << "a", "b", "c", "d", "e", "f", "g", "h", "i", "j", "k", "l", "m",
       "n", "o", "p", "q", "r", "s", "t", "u", "v", "w", "x", "y", "z",
       "0", "1", "2", "3", "4", "5", "6", "7", "8", "9" >>

DigitsAlphabet == << "0", "1", "2", "3", "4", "5", "6", "7", "8", "9" >>

\* The zero byte make([]byte, n) fills the buffer with.
NUL == "NUL"

\* ------------------------------------------------------------- arithmetic
RECURSIVE Pow2(_)
Pow2(k) == IF k <= 0 THEN 1 ELSE 2 * Pow2(k - 1)

MinInt == -Pow2(IntBits - 1)
MaxInt == Pow2(IntBits - 1) - 1
\* Two's complement wrap-around of an int result.
WrapInt(x) == ((x + Pow2(IntBits - 1)) % Pow2(IntBits)) - Pow2(IntBits - 1)

MinDuration == -Pow2(DurationBits - 1)
MaxDuration == Pow2(DurationBits - 1) - 1
\* Two's complement wrap-around of a time.Duration result.
WrapDuration(x) ==
    ((x + Pow2(DurationBits - 1)) % Pow2(DurationBits)) - Pow2(DurationBits - 1)

\* Division truncated toward zero (b > 0): a float to integer conversion.
TruncDiv(a, b) == IF a >= 0 THEN a \div b ELSE -((-a) \div b)

\* ------------------------------------------------------- the random source
MaxSeed == Pow2(GenBits) - 1
Seeds == 0 .. MaxSeed

\* The source's state transition: a full-period congruential step.
NextState(s) == (5 * s + 3) % Pow2(GenBits)

\* The 63 bit output the source computes in state s, least significant bit
\* first: the GenBits bits of s, repeated.
Output(s) ==
    [j \in 1 .. Int63Bits |-> (s \div Pow2((j - 1) % GenBits)) % 2]

RECURSIVE StateAt(_, _)
\* The source's state after k draws from seed.
StateAt(seed0, k) == IF k = 0 THEN seed0 ELSE NextState(StateAt(seed0, k - 1))

RECURSIVE LowValue(_, _)
\* x & (1<<k - 1): the number held by the low k bits of x.
LowValue(x, k) == IF k <= 0 THEN 0 ELSE x[1] + 2 * LowValue(Tail(x), k - 1)

\* x >> k of a non-negative 63 bit value.
ShiftRight(x, k) ==
    [j \in 1 .. Int63Bits |-> IF j + k <= Int63Bits THEN x[j + k] ELSE 0]

ZeroInt63 == [j \in 1 .. Int63Bits |-> 0]

\* ------------------------------------------------------------------ state
Callers == 1 .. NumCallers

VARIABLES
    seed,       \* the seed getRandSeed returned to init
    srcState,   \* lockedSource.src: the state of the one shared source
    mutex,      \* lockedSource's sync.Mutex: 0 when unlocked, else its holder
    pc,         \* each caller's position
    req,        \* each caller's call: the operation and its arguments
    ret,        \* where a caller inside Int63 returns to
    srcLocal,   \* the source state a caller inside src.Int63 has read
    drawn,      \* the value Int63 returned to the caller
    str,        \* String's local variables
    jit,        \* Jitter's local variables
    result,     \* the number the call returned
    out,        \* the string the call returned
    handed      \* history: the draws handed out, in order of return

vars ==
    << seed, srcState, mutex, pc, req, ret, srcLocal, drawn, str, jit,
       result, out, handed >>

NoCall == [op |-> "none"]
NoString ==
    [a |-> << >>, alphabetIdxBits |-> 0, alphabetIdxMask |-> 0,
     alphabetIdxMax |-> 0, b |-> << >>, randomInt63 |-> ZeroInt63,
     remaining |-> 0, i |-> 0]
NoJitter == [factor |-> defaultJitterFactor, newDuration |-> 0]

\* The positions inside lockedSource.Int63 at which the caller holds the lock.
InDraw == {"Int63_src", "Int63_src_write", "Int63_unlock"}

\* ----------------------------------------------------------------- inputs
IntInputs == {MinInt, MinInt + 1, -1, 0, 1, 2, MaxInt - 1, MaxInt}

IntnRequests == {[op |-> "Intn", n |-> n] : n \in {-1, 0, 1, 2, 3, MaxInt}}

IntnBetweenRequests ==
    {[op |-> "IntnBetween", min |-> lo, max |-> hi] :
        lo \in IntInputs, hi \in IntInputs}

Float64Requests == {[op |-> "Float64"]}

DurationInputs == {MinDuration, -1, 0, 1, 2, 5, MaxDuration}

\* The variadic maxFactor: omitted, or one factor num/den.
FactorInputs ==
    {<< >>} \cup
    {<<[num |-> f[1], den |-> f[2]]>> :
        f \in {<<0, 1>>, <<-1, 2>>, <<3, 5>>, <<1, 1>>, <<3, 1>>}}

JitterRequests ==
    {[op |-> "Jitter", duration |-> d, maxFactor |-> f] :
        d \in DurationInputs, f \in FactorInputs}

\* The variadic alphabet: omitted, or one alphabet.
AlphabetInputs ==
    {<< >>, << << >> >>, << <<"a">> >>, << <<"a", "b">> >>,
     << <<"a", "b", "c">> >>, << <<"a", "b", "c", "-">> >>,
     << <<"a", "b", "c", "d", "e">> >>, <<DigitsAlphabet>>,
     <<AlphanumAlphabet>>}

StringRequests ==
    {[op |-> "String", n |-> n, alphabet |-> al] :
        n \in 0 .. MaxLen, al \in AlphabetInputs}

Requests ==
    IntnRequests \cup IntnBetweenRequests \cup Float64Requests \cup
    JitterRequests \cup StringRequests

\* The calls made concurrently.
ConcWorkload ==
    << [op |-> "String", n |-> 1, alphabet |-> << <<"a", "b", "c">> >>],
       [op |-> "Jitter", duration |-> 1, maxFactor |-> <<[num |-> 3, den |-> 1]>>],
       [op |-> "IntnBetween", min |-> 0, max |-> 2],
       [op |-> "Float64"],
       [op |-> "Intn", n |-> 2] >>

\* The callers make every stride-th call of ConcWorkload, from any first
\* one.
ConcCalls ==
    {[p \in Callers |->
         ConcWorkload[((first + stride * (p - 1)) % Len(ConcWorkload)) + 1]] :
       first \in 0 .. Len(ConcWorkload) - 1, stride \in {1, 2}}

\* The seeds of the larger workloads: all bits clear, all bits set.
FewSeeds == {0, MaxSeed}

\* ------------------------------------------------------------------- init
\* init: globalRand = New(&lockedSource{src: NewSource(getRandSeed())}).
InitState(seeds, calls) ==
    /\ seed \in seeds
    /\ srcState = seed
    /\ mutex = 0
    /\ req \in calls
    /\ pc = [p \in Callers |-> "idle"]
    /\ ret = [p \in Callers |-> "none"]
    /\ srcLocal = [p \in Callers |-> 0]
    /\ drawn = [p \in Callers |-> ZeroInt63]
    /\ str = [p \in Callers |-> NoString]
    /\ jit = [p \in Callers |-> NoJitter]
    /\ result = [p \in Callers |-> 0]
    /\ out = [p \in Callers |-> << >>]
    /\ handed = << >>

\* One caller makes any call, the others make none.
SingleCalls ==
    {[p \in Callers |-> IF p = 1 THEN r ELSE NoCall] : r \in Requests}

Init == InitState(Seeds, SingleCalls)

\* The same calls, from the seeds of the larger workloads.
InitFewSeeds == InitState(FewSeeds, SingleCalls)

\* Every caller makes a call at once.
InitConc == InitState(FewSeeds, ConcCalls)

\* ------------------------------------------------------ lockedSource.Int63
\* The caller enters globalRand's draw and will continue at `to`.
BeginDraw(p, to) ==
    /\ pc' = [pc EXCEPT ![p] = "Int63_lock"]
    /\ ret' = [ret EXCEPT ![p] = to]

\* Lock as it would be if it did not wait for the mutex to be free.
LockWithoutWaiting(p) ==
    /\ pc[p] = "Int63_lock"
    /\ mutex' = p
    /\ pc' = [pc EXCEPT ![p] = "Int63_src"]
    /\ UNCHANGED << seed, srcState, req, ret, srcLocal, drawn, str, jit,
                    result, out, handed >>

\* ls.Lock()
Lock(p) ==
    /\ pc[p] = "Int63_lock"
    /\ mutex = 0
    /\ mutex' = p
    /\ pc' = [pc EXCEPT ![p] = "Int63_src"]
    /\ UNCHANGED << seed, srcState, req, ret, srcLocal, drawn, str, jit,
                    result, out, handed >>

\* n = ls.src.Int63(), first half: the source reads its state.
SrcRead(p) ==
    /\ pc[p] = "Int63_src"
    /\ srcLocal' = [srcLocal EXCEPT ![p] = srcState]
    /\ pc' = [pc EXCEPT ![p] = "Int63_src_write"]
    /\ UNCHANGED << seed, srcState, mutex, req, ret, drawn, str, jit, result, out,
                    handed >>

\* n = ls.src.Int63(), second half: the source stores its next state and
\* returns the output of the state it read.
SrcWrite(p) ==
    /\ pc[p] = "Int63_src_write"
    /\ srcState' = NextState(srcLocal[p])
    /\ drawn' = [drawn EXCEPT ![p] = Output(srcLocal[p])]
    /\ pc' = [pc EXCEPT ![p] = "Int63_unlock"]
    /\ UNCHANGED << seed, mutex, req, ret, srcLocal, str, jit, result, out,
                    handed >>

\* Unlock as it would be if Int63 returned without releasing the mutex.
UnlockKeepingMutex(p) ==
    /\ pc[p] = "Int63_unlock"
    /\ handed' = IF Len(handed) < MaxLog
                 THEN Append(handed, [caller |-> p, state |-> srcLocal[p]])
                 ELSE handed
    /\ srcLocal' = [srcLocal EXCEPT ![p] = 0]
    /\ pc' = [pc EXCEPT ![p] = ret[p]]
    /\ ret' = [ret EXCEPT ![p] = "none"]
    /\ UNCHANGED << seed, srcState, mutex, req, drawn, str, jit, result, out >>

\* ls.Unlock(); return
Unlock(p) ==
    /\ pc[p] = "Int63_unlock"
    /\ mutex' = 0
    /\ handed' = IF Len(handed) < MaxLog
                 THEN Append(handed, [caller |-> p, state |-> srcLocal[p]])
                 ELSE handed
    /\ srcLocal' = [srcLocal EXCEPT ![p] = 0]
    /\ pc' = [pc EXCEPT ![p] = ret[p]]
    /\ ret' = [ret EXCEPT ![p] = "none"]
    /\ UNCHANGED << seed, srcState, req, drawn, str, jit, result, out >>

\* The call returns the number v.
Return(p, v) ==
    /\ result' = [result EXCEPT ![p] = v]
    /\ pc' = [pc EXCEPT ![p] = "done"]
    /\ UNCHANGED out

\* The call returns the string v.
ReturnString(p, v) ==
    /\ out' = [out EXCEPT ![p] = v]
    /\ pc' = [pc EXCEPT ![p] = "done"]
    /\ UNCHANGED result

\* The call panics.
Panic(p) == pc' = [pc EXCEPT ![p] = "panicked"]

\* The caller has used the value Int63 returned.
Consume(p) == drawn' = [drawn EXCEPT ![p] = ZeroInt63]

\* ------------------------------------------------- Intn, IntnBetween, Float64
\* math/rand's Intn(n) panics when n <= 0 ...
IntnPanics(n) == n <= 0

\* ... and otherwise reduces a draw to [0, n).
IntnValue(draw, n) == LowValue(draw, GenBits) % n

\* math/rand's Float64: the low bits of a draw as a fraction, u = value / 2^FracBits.
Float64Value(draw) == LowValue(draw, FracBits)

CallIntn(p) ==
    /\ pc[p] = "idle"
    /\ req[p].op = "Intn"
    /\ IF IntnPanics(req[p].n)
       THEN Panic(p) /\ UNCHANGED ret
       ELSE BeginDraw(p, "Intn_ret")
    /\ UNCHANGED << seed, srcState, mutex, req, srcLocal, drawn, str, jit,
                    result, out, handed >>

IntnRet(p) ==
    /\ pc[p] = "Intn_ret"
    /\ Return(p, IntnValue(drawn[p], req[p].n))
    /\ Consume(p)
    /\ UNCHANGED << seed, srcState, mutex, req, ret, srcLocal, str, jit,
                    handed >>

\* The argument IntnBetween passes to Intn: max-min, in machine arithmetic.
IntnBetweenArg(min, max) == WrapInt(max - min)

\* globalRand.Intn(max-min) + min, in machine arithmetic.
IntnBetweenValue(draw, min, max) ==
    WrapInt(IntnValue(draw, IntnBetweenArg(min, max)) + min)

CallIntnBetween(p) ==
    /\ pc[p] = "idle"
    /\ req[p].op = "IntnBetween"
    /\ IF IntnPanics(IntnBetweenArg(req[p].min, req[p].max))
       THEN Panic(p) /\ UNCHANGED ret
       ELSE BeginDraw(p, "IntnBetween_ret")
    /\ UNCHANGED << seed, srcState, mutex, req, srcLocal, drawn, str, jit,
                    result, out, handed >>

IntnBetweenRet(p) ==
    /\ pc[p] = "IntnBetween_ret"
    /\ Return(p, IntnBetweenValue(drawn[p], req[p].min, req[p].max))
    /\ Consume(p)
    /\ UNCHANGED << seed, srcState, mutex, req, ret, srcLocal, str, jit,
                    handed >>

CallFloat64(p) ==
    /\ pc[p] = "idle"
    /\ req[p].op = "Float64"
    /\ BeginDraw(p, "Float64_ret")
    /\ UNCHANGED << seed, srcState, mutex, req, srcLocal, drawn, str, jit,
                    result, out, handed >>

Float64Ret(p) ==
    /\ pc[p] = "Float64_ret"
    /\ Return(p, Float64Value(drawn[p]))
    /\ Consume(p)
    /\ UNCHANGED << seed, srcState, mutex, req, ret, srcLocal, str, jit,
                    handed >>

\* ----------------------------------------------------------------- Jitter
\* factor := defaultJitterFactor, or maxFactor[0] when it is given and > 0.0.
JitterFactor(maxFactor) ==
    IF Len(maxFactor) > 0 /\ maxFactor[1].num > 0
    THEN maxFactor[1]
    ELSE defaultJitterFactor

\* The loop's test as it would be with < for <=.
JitterLoopsAgainBelowZero(newDuration) == newDuration < 0

\* for newDuration <= 0 { ... }
JitterLoopsAgain(newDuration) == newDuration <= 0

\* randRange as it would be without the "- 1": in [0.0, 2.0).
RandRangeUncentred(u) == 2 * u

\* randRange := 2*Float64() - 1, as a numerator over 2^FracBits.
RandRange(u) == 2 * u - Pow2(FracBits)

\* time.Duration(randRange * factor * float64(duration)): the product, truncated
\* toward zero.  A product no Duration can hold converts to a value the build
\* chooses: the smallest Duration, or the nearest one.
JitterOf(u, factor, duration) ==
    LET t == TruncDiv(RandRange(u) * factor.num * duration,
                      Pow2(FracBits) * factor.den)
    IN  IF t > MaxDuration THEN {MinDuration, MaxDuration}
        ELSE IF t < MinDuration THEN {MinDuration}
        ELSE {t}

CallJitter(p) ==
    /\ pc[p] = "idle"
    /\ req[p].op = "Jitter"
    /\ jit' = [jit EXCEPT ![p] = [factor |-> JitterFactor(req[p].maxFactor),
                                  newDuration |-> 0]]
    /\ pc' = [pc EXCEPT ![p] = "Jitter_loop"]
    /\ UNCHANGED << seed, srcState, mutex, req, ret, srcLocal, drawn, str,
                    result, out, handed >>

\* The loop's test: draw again, or return newDuration.
JitterLoop(p) ==
    /\ pc[p] = "Jitter_loop"
    /\ IF JitterLoopsAgain(jit[p].newDuration)
       THEN BeginDraw(p, "Jitter_body") /\ UNCHANGED << result, out >>
       ELSE Return(p, jit[p].newDuration) /\ UNCHANGED ret
    /\ UNCHANGED << seed, srcState, mutex, req, srcLocal, drawn, str, jit,
                    handed >>

\* The loop's body, once Float64 has returned.
JitterBody(p) ==
    /\ pc[p] = "Jitter_body"
    /\ \E jitter \in JitterOf(Float64Value(drawn[p]), jit[p].factor,
                              req[p].duration) :
          jit' = [jit EXCEPT
                    ![p].newDuration = WrapDuration(req[p].duration + jitter)]
    /\ Consume(p)
    /\ pc' = [pc EXCEPT ![p] = "Jitter_loop"]
    /\ UNCHANGED << seed, srcState, mutex, req, ret, srcLocal, str, result, out,
                    handed >>

\* ----------------------------------------------------------------- String
\* a = alphabet[0] when it is given and not empty, else AlphanumAlphabet.
ChosenAlphabet(alphabet) ==
    IF Len(alphabet) > 0 /\ Len(alphabet[1]) > 0
    THEN alphabet[1]
    ELSE AlphanumAlphabet

RECURSIVE countBitsLoop(_, _)
\* for ; x > 0; x >>= 1 { bitsNo++ }
countBitsLoop(x, bitsNo) ==
    IF x > 0 THEN countBitsLoop(x \div 2, bitsNo + 1) ELSE bitsNo

\* countBits: bitsNo := 0; for x--; x > 0; x >>= 1 { bitsNo++ }
countBits(x) == countBitsLoop(x - 1, 0)

\* alphabetIdx < len(a)
IndexAccepted(alphabetIdx, a) == alphabetIdx < Len(a)

\* The pass as it would be if remaining were decremented for an accepted
\* group only.
ExamineGroupCountingAccepted(s) ==
    LET alphabetIdx == LowValue(s.randomInt63, s.alphabetIdxBits)
        accepted == IndexAccepted(alphabetIdx, s.a)
    IN  [s EXCEPT
            !.b = IF accepted
                  THEN [s.b EXCEPT ![s.i + 1] = s.a[alphabetIdx + 1]]
                  ELSE s.b,
            !.i = IF accepted THEN s.i + 1 ELSE s.i,
            !.randomInt63 = ShiftRight(s.randomInt63, s.alphabetIdxBits),
            !.remaining = IF accepted THEN s.remaining - 1 ELSE s.remaining]

\* The pass as it would be if i advanced on a discarded group too.
ExamineGroupAlwaysAdvancing(s) ==
    LET alphabetIdx == LowValue(s.randomInt63, s.alphabetIdxBits)
        accepted == IndexAccepted(alphabetIdx, s.a)
    IN  [s EXCEPT
            !.b = IF accepted
                  THEN [s.b EXCEPT ![s.i + 1] = s.a[alphabetIdx + 1]]
                  ELSE s.b,
            !.i = s.i + 1,
            !.randomInt63 = ShiftRight(s.randomInt63, s.alphabetIdxBits),
            !.remaining = s.remaining - 1]

\* One pass of the loop's body below the redraw: the low alphabetIdxBits bits
\* of randomInt63 index the alphabet or are discarded, then randomInt63 is
\* shifted and remaining decremented.
ExamineGroup(s) ==
    LET alphabetIdx == LowValue(s.randomInt63, s.alphabetIdxBits)
        accepted == IndexAccepted(alphabetIdx, s.a)
    IN  [s EXCEPT
            !.b = IF accepted
                  THEN [s.b EXCEPT ![s.i + 1] = s.a[alphabetIdx + 1]]
                  ELSE s.b,
            !.i = IF accepted THEN s.i + 1 ELSE s.i,
            !.randomInt63 = ShiftRight(s.randomInt63, s.alphabetIdxBits),
            !.remaining = s.remaining - 1]

\* The declarations up to the first draw.  63 / alphabetIdxBits panics
\* (integer divide by zero) when alphabetIdxBits is 0, make([]byte, n) when
\* n < 0.
CallString(p) ==
    /\ pc[p] = "idle"
    /\ req[p].op = "String"
    /\ LET a == ChosenAlphabet(req[p].alphabet)
           alphabetIdxBits == countBits(Len(a))
       IN  IF alphabetIdxBits = 0 \/ req[p].n < 0
           THEN Panic(p) /\ UNCHANGED << ret, str >>
           ELSE /\ str' = [str EXCEPT ![p] =
                            [a |-> a,
                             alphabetIdxBits |-> alphabetIdxBits,
                             alphabetIdxMask |-> Pow2(alphabetIdxBits) - 1,
                             alphabetIdxMax |-> Int63Bits \div alphabetIdxBits,
                             b |-> [k \in 1 .. req[p].n |-> NUL],
                             randomInt63 |-> ZeroInt63,
                             remaining |-> 0,
                             i |-> 0]]
                /\ BeginDraw(p, "String_init")
    /\ UNCHANGED << seed, srcState, mutex, req, srcLocal, drawn, jit, result, out,
                    handed >>

\* randomInt63 := globalRand.Int63(); remaining := alphabetIdxMax
StringInit(p) ==
    /\ pc[p] = "String_init"
    /\ str' = [str EXCEPT ![p].randomInt63 = drawn[p],
                          ![p].remaining = str[p].alphabetIdxMax]
    /\ Consume(p)
    /\ pc' = [pc EXCEPT ![p] = "String_loop"]
    /\ UNCHANGED << seed, srcState, mutex, req, ret, srcLocal, jit, result, out,
                    handed >>

\* The loop's test and one pass of its body: return b once i reaches n, draw
\* again when remaining is 0, else examine the next group.
StringLoop(p) ==
    /\ pc[p] = "String_loop"
    /\ IF ~(str[p].i < req[p].n)
       THEN ReturnString(p, str[p].b) /\ UNCHANGED << ret, str >>
       ELSE IF str[p].remaining = 0
       THEN BeginDraw(p, "String_redraw") /\ UNCHANGED << result, out, str >>
       ELSE /\ str' = [str EXCEPT ![p] = ExamineGroup(str[p])]
            /\ UNCHANGED << pc, ret, result, out >>
    /\ UNCHANGED << seed, srcState, mutex, req, srcLocal, drawn, jit, handed >>

\* randomInt63, remaining = globalRand.Int63(), alphabetIdxMax, and the rest
\* of that pass of the body.
StringRedraw(p) ==
    /\ pc[p] = "String_redraw"
    /\ str' = [str EXCEPT ![p] =
                 ExamineGroup([str[p] EXCEPT
                                 !.randomInt63 = drawn[p],
                                 !.remaining = str[p].alphabetIdxMax])]
    /\ Consume(p)
    /\ pc' = [pc EXCEPT ![p] = "String_loop"]
    /\ UNCHANGED << seed, srcState, mutex, req, ret, srcLocal, jit, result, out,
                    handed >>

\* ------------------------------------------------------------------- next
Next ==
    \E p \in Callers :
        \/ Lock(p)
        \/ SrcRead(p)
        \/ SrcWrite(p)
        \/ Unlock(p)
        \/ CallIntn(p)
        \/ IntnRet(p)
        \/ CallIntnBetween(p)
        \/ IntnBetweenRet(p)
        \/ CallFloat64(p)
        \/ Float64Ret(p)
        \/ CallJitter(p)
        \/ JitterLoop(p)
        \/ JitterBody(p)
        \/ CallString(p)
        \/ StringInit(p)
        \/ StringLoop(p)
        \/ StringRedraw(p)

\* A caller that can take a step takes one; a caller waiting for the lock
\* gets it if it is free again and again (sync.Mutex hands a starving waiter
\* the lock).
Fairness ==
    \A p \in Callers :
        /\ SF_vars(Lock(p))
        /\ WF_vars(SrcRead(p) \/ SrcWrite(p) \/ Unlock(p))
        /\ WF_vars(CallIntn(p) \/ IntnRet(p) \/ CallIntnBetween(p)
                   \/ IntnBetweenRet(p) \/ CallFloat64(p) \/ Float64Ret(p))
        /\ WF_vars(CallJitter(p) \/ JitterLoop(p) \/ JitterBody(p))
        /\ WF_vars(CallString(p) \/ StringInit(p) \/ StringLoop(p)
                   \/ StringRedraw(p))

\* One call at a time.
Spec == Init /\ [][Next]_vars

FairSpec == InitFewSeeds /\ [][Next]_vars /\ Fairness

\* Concurrent calls.
SpecConc == InitConc /\ [][Next]_vars

FairSpecConc == SpecConc /\ Fairness

\* ----------------------------------------------------------------- claims
\* The symbols of a sequence.
Symbols(a) == {a[k] : k \in 1 .. Len(a)}

\* A String call given one non-empty alphabet.
GivenAlphabet(r) ==
    r.op = "String" /\ Len(r.alphabet) > 0 /\ Len(r.alphabet[1]) >= 1

\* C1: String(n, a) completes without any failure (no panic) for every length
\* n >= 0 and every non-empty alphabet a, and String(0, a) returns the empty
\* string.
C1_StringNeverFails ==
    \A p \in Callers :
        (GivenAlphabet(req[p]) /\ req[p].n >= 0) =>
            /\ pc[p] # "panicked"
            /\ (pc[p] = "done" /\ req[p].n = 0) => out[p] = << >>

\* The default alphabet a-z0-9, as the claim gives it.
C2_DefaultSymbols ==
    {"a", "b", "c", "d", "e", "f", "g", "h", "i", "j", "k", "l", "m", "n",
     "o", "p", "q", "r", "s", "t", "u", "v", "w", "x", "y", "z", "0", "1",
     "2", "3", "4", "5", "6", "7", "8", "9"}

\* The effective alphabet: the first supplied alphabet if it is non-empty,
\* otherwise the default.
C2_EffectiveSymbols(alphabet) ==
    IF alphabet = << >> THEN C2_DefaultSymbols
    ELSE IF alphabet[1] = << >> THEN C2_DefaultSymbols
    ELSE Symbols(alphabet[1])

\* C2: every string String(n, a) returns, n >= 0, has exactly n symbols, each
\* a member of the effective alphabet (the supplied one, or a-z0-9 when it is
\* omitted or empty).
C2_StringLengthAndSymbols ==
    \A p \in Callers :
        (req[p].op = "String" /\ req[p].n >= 0 /\ pc[p] = "done") =>
            /\ Len(out[p]) = req[p].n
            /\ \A k \in 1 .. Len(out[p]) :
                  out[p][k] \in C2_EffectiveSymbols(req[p].alphabet)

\* A String call with an empty alphabet has returned MaxLen symbols after a
\* second draw, that is after discarded groups.
C2_Witness ==
    \E p \in Callers :
        /\ req[p].op = "String" /\ pc[p] = "done"
        /\ req[p].alphabet = << << >> >>
        /\ req[p].n = MaxLen
        /\ Len(handed) >= 2

\* C3: every value Jitter returns is strictly greater than 0, for every
\* duration and factor: a non-positive candidate is never returned.
C3_JitterPositive ==
    \A p \in Callers :
        (req[p].op = "Jitter" /\ pc[p] = "done") => result[p] > 0

\* Jitter(1, 3.0) has returned after a candidate was rejected and redrawn.
C3_Witness ==
    \E p \in Callers :
        /\ req[p].op = "Jitter" /\ pc[p] = "done"
        /\ req[p].duration = 1
        /\ req[p].maxFactor = <<[num |-> 3, den |-> 1]>>
        /\ Len(handed) >= 2

\* C4: every call to Jitter eventually returns, for every duration and factor.
C4_JitterReturns ==
    \A p \in Callers : (req[p].op = "Jitter") ~> (pc[p] = "done")

\* The effective factor: the first supplied factor when it is > 0.0,
\* otherwise 0.2.
C5_EffectiveFactor(maxFactor) ==
    IF maxFactor = << >> THEN [num |-> 1, den |-> 5]
    ELSE IF maxFactor[1].num * maxFactor[1].den > 0 THEN maxFactor[1]
    ELSE [num |-> 1, den |-> 5]

C6_IntnBetweenInRange ==
    \A p \in Callers :
        (req[p].op = "IntnBetween" /\ req[p].min < req[p].max) =>
            /\ pc[p] # "panicked"
            /\ pc[p] = "done" =>
                  (req[p].min <= result[p] /\ result[p] < req[p].max)

\* C7: for all machine integers max <= min, IntnBetween(min, max) panics and
\* never returns a value.
C7_IntnBetweenPanics ==
    \A p \in Callers :
        (req[p].op = "IntnBetween" /\ req[p].max <= req[p].min) =>
            pc[p] \in {"idle", "panicked"}

\* C8: at most one caller at a time is inside the source's draw, the state a
\* caller advances is the state it read, and the draws handed out, in order,
\* are exactly the source's output sequence from the seed: none is handed
\* out twice, none is lost.
C8_DrawsSerialized ==
    /\ Cardinality({p \in Callers : pc[p] \in InDraw}) <= 1
    /\ \A p \in Callers :
          pc[p] = "Int63_src_write" => srcLocal[p] = srcState
    /\ \A k \in 1 .. Len(handed) : handed[k].state = StateAt(seed, k - 1)
    /\ Len(handed) < MaxLog =>
          srcState = StateAt(seed, Len(handed)
                       + Cardinality({p \in Callers : pc[p] = "Int63_unlock"}))

\* One caller is inside the source's draw while another, which was handed
\* the draw before, waits for the lock to draw again.
C8_Witness ==
    \E p \in Callers, q \in Callers :
        /\ p # q
        /\ pc[p] = "Int63_src_write"
        /\ pc[q] = "Int63_lock"
        /\ Len(handed) >= 1
        /\ handed[Len(handed)].caller = q

\* C9: a caller holds the lock only inside a draw, never in String's or
\* Jitter's loop outside of one, and every caller that requests a draw
\* eventually obtains it.
C9_LockHeldOnlyInDraw ==
    /\ [](\A p \in Callers : (mutex = p) <=> (pc[p] \in InDraw))
    /\ \A p \in Callers : (pc[p] = "Int63_lock") ~> (mutex = p)

\* The draws of a String call and of another caller's call interleave: the
\* String call is in its loop between its first and its second draw, without
\* the lock, while the other caller is inside a draw.
C9_Witness ==
    \E p \in Callers, q \in Callers :
        /\ p # q
        /\ req[p].op = "String" /\ pc[p] = "String_loop"
        /\ mutex = q /\ pc[q] \in InDraw
        /\ Len(handed) = 1 /\ handed[1].caller = p

\* C10: for every alphabet of size m >= 1, String's index width k is the
\* smallest with 2^k >= m and the mask covers every index; String goes on to
\* examine groups, and a group value v is emitted as alphabet[v] exactly when
\* v < m and discarded otherwise, so that every symbol can be emitted.
C10_WidthAndEmission ==
    \A p \in Callers :
        (req[p].op = "String" /\ req[p].n >= 0) =>
            LET a == IF GivenAlphabet(req[p]) THEN req[p].alphabet[1]
                     ELSE AlphanumAlphabet
                m == Len(a)
                k == countBits(m)
            IN  /\ Pow2(k) >= m
                /\ k > 0 => Pow2(k - 1) < m
                /\ pc[p] # "panicked"
                /\ (pc[p] = "String_loop" /\ str[p].remaining > 0) =>
                      LET v == LowValue(str[p].randomInt63, k)
                          t == ExamineGroup(str[p])
                      IN  /\ str[p].alphabetIdxBits = k
                          /\ str[p].alphabetIdxMask = Pow2(k) - 1
                          /\ str[p].alphabetIdxMask >= m - 1
                          /\ str[p].i < req[p].n =>
                                IF v < m
                                THEN /\ t.i = str[p].i + 1
                                     /\ t.b[t.i] = a[v + 1]
                                ELSE /\ t.i = str[p].i
                                     /\ t.b = str[p].b

\* The positions of a String call inside its loop: at the loop's test, or
\* drawing again within a pass.
C11_InLoop(p) ==
    \/ pc[p] \in {"String_loop", "String_redraw"}
    \/ pc[p] \in {"Int63_lock"} \cup InDraw /\ ret[p] = "String_redraw"

\* The symbols the first cnt groups of k bits of a draw emit, in order: a
\* group value below the alphabet's size emits its symbol, another none.
C11_Emitted(draw, k, cnt, a) ==
    LET value(g) == LowValue(ShiftRight(draw, k * (g - 1)), k)
        accepted == SelectSeq([g \in 1 .. cnt |-> value(g)],
                              LAMBDA v : v < Len(a))
    IN  [j \in 1 .. Len(accepted) |-> a[accepted[j] + 1]]

RECURSIVE C11_EmittedUpTo(_, _, _, _, _)
\* The symbols the draws 1 .. d of the history emit when every draw before
\* the d-th supplies perDraw groups and the d-th supplies cnt.
C11_EmittedUpTo(d, k, perDraw, cnt, a) ==
    IF d = 0 THEN << >>
    ELSE C11_EmittedUpTo(d - 1, k, perDraw, perDraw, a)
         \o C11_Emitted(Output(handed[d].state), k, cnt, a)

\* C11: in String's loop 0 <= remaining <= floor(63/k) and 0 <= i <= n; a
\* fresh draw is taken exactly when remaining is 0, after one initial draw
\* that is taken even when n = 0; every examined group, accepted or not,
\* shifts the draw by k bits and decrements remaining, so a draw supplies at
\* most floor(63/k) groups and each output position has a group of its own.
C11_StringLoopAccounting ==
    \A p \in Callers :
        req[p].op = "String" =>
            LET s == str[p]
                k == s.alphabetIdxBits
                perDraw == Int63Bits \div k
                used == perDraw - s.remaining
                d == Len(handed)
            IN  /\ C11_InLoop(p) =>
                      /\ k >= 1
                      /\ 0 <= s.remaining /\ s.remaining <= perDraw
                      /\ 0 <= s.i /\ s.i <= req[p].n
                      /\ d >= 1
                /\ (C11_InLoop(p) /\ pc[p] # "String_loop") =>
                      (s.remaining = 0 /\ s.i < req[p].n)
                /\ (pc[p] = "String_loop" /\ d < MaxLog) =>
                      /\ s.randomInt63 =
                            ShiftRight(Output(handed[d].state), k * used)
                      /\ s.i <= (d - 1) * perDraw + used
                      /\ [j \in 1 .. s.i |-> s.b[j]] =
                            C11_EmittedUpTo(d, k, perDraw, used, s.a)
                /\ (pc[p] = "done" /\ req[p].n = 0) => d = 1
                /\ (pc[p] = "done" /\ d < MaxLog) =>
                      out[p] = C11_EmittedUpTo(d, k, perDraw,
                                               perDraw - s.remaining, s.a)

\* A String call is in its loop after a second draw, some group of which was
\* discarded and some accepted.
C11_Witness ==
    \E p \in Callers :
        /\ req[p].op = "String" /\ pc[p] = "String_loop"
        /\ Len(handed) = 2
        /\ str[p].i >= 1 /\ str[p].i < req[p].n
        /\ str[p].remaining < str[p].alphabetIdxMax
        /\ str[p].alphabetIdxMax - str[p].remaining > str[p].i

====
